---- MODULE Spec2Model ----
(***************************************************************************)
(* State-machine model of the profile-site backend (src/main.py with the   *)
(* pydantic schemas of src/schemas.py): the contact, chat and video        *)
(* handlers, the multipart upload with its file write and metadata write,  *)
(* and the document store and upload directory they share.                 *)
(*                                                                         *)
(* Strings are sequences of one-character strings; a Python value is a     *)
(* tagged record [t, v]: t = "str" (v the characters), t = "none" (None),  *)
(* t = "dt" (a datetime, v its printed form).  A stored document is a      *)
(* function from the field names it has to values, so that d.get(k, dflt)  *)
(* can tell a missing field from a present one.                            *)
(***************************************************************************)
EXTENDS Integers, Sequences, FiniteSets, TLC

VARIABLES
    db,         \* the document store: collection name -> sequence of documents
    origin,     \* history: for each stored document, the operation that wrote it
    disk,       \* UPLOAD_DIR: stored file name -> content written
    issued,     \* number of uuid4 values drawn so far
    up,         \* upload_video requests in flight, one per worker thread
    uploaded,   \* history: the uploads that returned success
    resp        \* the response the last step returned, if it returned one

vars == <<db, origin, disk, issued, up, uploaded, resp>>

----------------------------------------------------------------------------
(* Bounds of the model *)

\* documents the store may hold in total, and video items and contact
\* messages among them
MaxDocs == 3
MaxVideos == 2
MaxContacts == 1
\* uploads that pass the format check (each draws one uuid4)
MaxUploads == 2
\* largest limit a list request supplies
MaxLimit == 3

\* worker threads serving upload_video concurrently
Workers == {"w1", "w2"}

----------------------------------------------------------------------------
(* Python values *)

None == [t |-> "none", v |-> <<>>]
Str(s) == [t |-> "str", v |-> s]
Dt(s) == [t |-> "dt", v |-> s]

\* a string of n characters
Chars(n) == [i \in 1..n |-> "x"]

IsStr(x) == x.t = "str"
\* Python truthiness of a value: None and "" are falsy
Truthy(x) == x.t = "dt" \/ (x.t = "str" /\ x.v # <<>>)

\* dict.get(key, default)
Get(d, k, dflt) == IF k \in DOMAIN d THEN d[k] ELSE dflt

EmptyDoc == [k \in {} |-> None]

----------------------------------------------------------------------------
(* schemas.py: field constraints *)

ContactNameMin == 2
ContactNameMax == 100
ContactMessageMin == 5
ContactMessageMax == 2000
ChatNameMin == 2
ChatNameMax == 60
ChatContentMin == 1
ChatContentMax == 500
TitleMin == 2
TitleMax == 140
DescriptionMax == 500

\* Field(..., min_length, max_length) on a required str field
StrField(d, k, lo, hi) ==
    /\ k \in DOMAIN d
    /\ IsStr(d[k])
    /\ Len(d[k].v) >= lo
    /\ Len(d[k].v) <= hi

\* Optional[str] = Field(None, max_length): absent, None or a str
OptStrField(d, k, hi) ==
    \/ k \notin DOMAIN d
    \/ d[k].t = "none"
    \/ IsStr(d[k]) /\ Len(d[k].v) <= hi

\* a required str field with no length constraint
PlainStr(d, k) == k \in DOMAIN d /\ IsStr(d[k])

\* Optional[str] with no length constraint
OptStr(d, k) == k \notin DOMAIN d \/ d[k].t = "none" \/ IsStr(d[k])

\* EmailStr: a local part, one "@", a domain part holding a dot
ValidEmail(s) ==
    \E i \in 2..(Len(s) - 1) :
        /\ s[i] = "@"
        /\ \A j \in 1..Len(s) : s[j] = "@" => j = i
        /\ \E j \in (i + 2)..(Len(s) - 1) : s[j] = "."

ValidContactMessage(d) ==
    /\ StrField(d, "name", ContactNameMin, ContactNameMax)
    /\ PlainStr(d, "email") /\ ValidEmail(d["email"].v)
    /\ StrField(d, "message", ContactMessageMin, ContactMessageMax)

ValidChatMessage(d) ==
    /\ StrField(d, "name", ChatNameMin, ChatNameMax)
    /\ StrField(d, "content", ChatContentMin, ChatContentMax)

ValidVideoItem(d) ==
    /\ StrField(d, "title", TitleMin, TitleMax)
    /\ PlainStr(d, "url")
    /\ OptStr(d, "thumbnail")
    /\ OptStrField(d, "description", DescriptionMax)
    /\ OptStr(d, "created_at")

\* the fields of a validated VideoItem, optional ones defaulting to None
VideoItemModel(d) ==
    [title |-> d["title"],
     url |-> d["url"],
     thumbnail |-> Get(d, "thumbnail", None),
     description |-> Get(d, "description", None),
     created_at |-> Get(d, "created_at", None)]

----------------------------------------------------------------------------
(* pathlib and str helpers used by upload_video *)

UpperCase == <<"A","B","C","D","E","F","G","H","I","J","K","L","M",
               "N","O","P","Q","R","S","T","U","V","W","X","Y","Z">>
LowerCase == <<"a","b","c","d","e","f","g","h","i","j","k","l","m",
               "n","o","p","q","r","s","t","u","v","w","x","y","z">>

LowerChar(c) ==
    IF \E i \in 1..Len(UpperCase) : UpperCase[i] = c
    THEN LowerCase[CHOOSE i \in 1..Len(UpperCase) : UpperCase[i] = c]
    ELSE c

\* str.lower()
LowerIdentity(s) == s
Lower(s) == [i \in 1..Len(s) |-> LowerChar(s[i])]

\* the components of a path, split at "/"
RECURSIVE SplitSlash(_)
SplitSlash(s) ==
    IF \A i \in 1..Len(s) : s[i] # "/"
    THEN <<s>>
    ELSE LET i == CHOOSE k \in 1..Len(s) :
                      s[k] = "/" /\ \A j \in 1..(k - 1) : s[j] # "/"
         IN  <<SubSeq(s, 1, i - 1)>> \o SplitSlash(SubSeq(s, i + 1, Len(s)))

\* PurePath.name: the last component, empty and "." components dropped
PathName(s) ==
    LET parts == SelectSeq(SplitSlash(s), LAMBDA c : c # <<>> /\ c # <<".">>)
    IN  IF parts = <<>> THEN <<>> ELSE parts[Len(parts)]

\* str.rfind("."): the last index of a dot, 0 when there is none
\* (Python's -1 and 0, shifted to 1-based indices)
RFindDot(name) ==
    IF \E i \in 1..Len(name) : name[i] = "."
    THEN CHOOSE i \in 1..Len(name) :
             name[i] = "." /\ \A j \in (i + 1)..Len(name) : name[j] # "."
    ELSE 0

\* PurePath.suffix: from the last dot of the name, unless that dot leads or
\* ends the name
Suffix(s) ==
    LET name == PathName(s)
        i == RFindDot(name)
    IN  IF 1 < i /\ i < Len(name) THEN SubSeq(name, i, Len(name)) ELSE <<>>

----------------------------------------------------------------------------
(* upload_video: the pieces of its try block *)

\* the set literal of the format check
AllowedExts ==
    {<<".","m","p","4">>, <<".","m","o","v">>, <<".","w","e","b","m">>,
     <<".","m","k","v">>, <<".","a","v","i">>}

\* detail of the format rejection, cut at the formats it names
\* (the accented letters of the source are written unaccented)
FormatsDetail ==
    <<"Podporovane formaty: ", "mp4", ", ", "mov", ", ", "webm", ", ",
      "mkv", ", ", "avi">>

\* ext = Path(file.filename).suffix.lower()
Ext(filename) == Lower(Suffix(filename))

\* the guard of the raise
FormatRejectedNever(ext) == FALSE
FormatRejected(ext) == ext \notin AllowedExts

\* uuid.uuid4().hex of the n-th draw: 32 hex digits, kept as one token.  The
\* draws are taken to differ from one another.
HexTokens == <<"3f1c", "9b7e", "c2d4", "e5a0", "71f8", "a6b3">>
Uuid4Hex(n) == <<HexTokens[n]>>

\* safe_name = f"{uuid.uuid4().hex}{ext}"
SafeNameFixed(hex, ext) == <<"v","i","d","e","o">> \o ext
SafeName(hex, ext) == hex \o ext

\* UPLOAD_DIR below the static mount: the public prefix of a stored file
UrlPrefix == <<"/uploads/videos/">>

\* url_path = f"/uploads/videos/{safe_name}"
UrlPathBare(safe_name) == <<"/uploads/">> \o safe_name
UrlPath(safe_name) == UrlPrefix \o safe_name

\* the file of UPLOAD_DIR that the static mount serves at a url, <<>> when
\* the url is not below the directory's prefix
FileOfUrl(url) ==
    IF Len(url) >= 1 /\ url[1] = UrlPrefix[1] THEN Tail(url) ELSE <<>>

\* description or ""
DescriptionOrEmpty(description) ==
    IF Truthy(description) THEN description ELSE Str(<<>>)

\* the payload dict
Payload(title, url_path, description) ==
    [title |-> title,
     url |-> url_path,
     description |-> DescriptionOrEmpty(description),
     thumbnail |-> None]

\* exceptions: an HTTPException carries status and detail, any other
\* exception its message
HTTPException(status, detail) ==
    [type |-> "HTTPException", status |-> status, detail |-> detail]
Error(type, msg) == [type |-> type, status |-> 0, detail |-> msg]

\* the except clauses of upload_video: an HTTPException is re-raised, any
\* other exception becomes a 500 carrying str(e)
UploadExceptAll500(e) == HTTPException(500, e.detail)
UploadExcept(e) ==
    IF e.type = "HTTPException" THEN e ELSE HTTPException(500, e.detail)

\* the except clause of the single-step handlers
HandlerExcept(e) == HTTPException(500, e.detail)

\* what the except clauses do to the upload directory: nothing is unlinked
DiskAfterExceptUnlink(d, name) == [n \in DOMAIN d \ {name} |-> d[n]]
DiskAfterExcept(d, name) == d

\* with dest_path.open("wb") as f: f.write(...), completed by request n
WriteFile(d, name, n) ==
    [x \in DOMAIN d \cup {name} |->
        IF x = name THEN [by |-> n, complete |-> TRUE] ELSE d[x]]

\* the same write failing after open("wb") created or truncated the file
WriteFilePartial(d, name, n) ==
    [x \in DOMAIN d \cup {name} |->
        IF x = name THEN [by |-> n, complete |-> FALSE] ELSE d[x]]

----------------------------------------------------------------------------
(* list handlers: normalisation of a stored document *)

\* datetime.isoformat(): date and time joined by "T"
Isoformat(x) == Str([i \in 1..Len(x.v) |-> IF x.v[i] = " " THEN "T" ELSE x.v[i]])

\* created_iso of list_videos
CreatedIso(d) ==
    LET created_at == Get(d, "created_at", None)
    IN  IF created_at.t = "dt" THEN Isoformat(created_at)
        ELSE IF Truthy(created_at) THEN created_at ELSE None

\* the keyword arguments list_videos passes to VideoItem(...)
VideoItemArgs(d) ==
    [title |-> Get(d, "title", Str(<<>>)),
     url |-> Get(d, "url", Str(<<>>)),
     thumbnail |-> Get(d, "thumbnail", None),
     description |-> Get(d, "description", None),
     created_at |-> CreatedIso(d)]

\* the dict get_chat_messages appends to cleaned
CleanedChat(d) ==
    [name |-> Get(d, "name", Str(<<"A","n","o","n","y","m">>)),
     content |-> Get(d, "content", Str(<<>>))]

\* what a list handler makes of a stored document
Cleaned(op, d) ==
    IF op = "get_chat_messages" THEN CleanedChat(d) ELSE VideoItemArgs(d)

\* the schema a listed entry is validated against: response_model
\* List[ChatMessage] on the returned dicts, VideoItem(...) in list_videos
ValidEntry(op, d) ==
    IF op = "get_chat_messages" THEN ValidChatMessage(d) ELSE ValidVideoItem(d)

\* the entry as returned
EntryOut(op, d) ==
    IF op = "get_chat_messages" THEN d ELSE VideoItemModel(d)

----------------------------------------------------------------------------
(* the document store adapter (database module) *)

Collections == {"contactmessage", "chatmessage", "videoitem"}

TotalDocs ==
    Len(db["contactmessage"]) + Len(db["chatmessage"]) + Len(db["videoitem"])

\* the store has room for one more document of the collection (the bound
\* of the model; the store itself has none)
Room(coll) ==
    /\ TotalDocs < MaxDocs
    /\ coll = "videoitem" => Len(db[coll]) < MaxVideos
    /\ coll = "contactmessage" => Len(db[coll]) < MaxContacts

\* the first n documents of a sequence
Take(q, n) == SubSeq(q, 1, IF n < Len(q) THEN n ELSE Len(q))

\* get_documents(collection, {}, limit): the results it may return.  A
\* positive limit bounds the result; what a limit of zero or below means is
\* left to the store, which may return any part of the collection.
GetDocuments(coll, limit) ==
    IF limit >= 1
    THEN {Take(db[coll], limit)}
    ELSE {Take(db[coll], k) : k \in 0..Len(db[coll])}

\* create_document(collection, data) succeeding: the document is appended
CreateDocument(coll, doc, by) ==
    /\ db' = [db EXCEPT ![coll] = Append(@, doc)]
    /\ origin' = [origin EXCEPT ![coll] = Append(@, by)]

\* the exception a failing store call raises
StoreError == Error("Exception", <<"Database not available">>)
DiskError == Error("OSError", <<"No space left on device">>)

----------------------------------------------------------------------------
(* requests the clients send *)

SomeEmail == <<"a","@","b",".","s","k">>

ContactInputs ==
    {[name |-> Str(Chars(n)), email |-> Str(e), message |-> Str(Chars(m))] :
        <<n, e, m>> \in
            {<<ContactNameMin, SomeEmail, ContactMessageMin>>,
             <<ContactNameMax, SomeEmail, ContactMessageMax>>,
             <<ContactNameMin - 1, SomeEmail, ContactMessageMin>>,
             <<ContactNameMax + 1, SomeEmail, ContactMessageMin>>,
             <<ContactNameMin, SomeEmail, ContactMessageMin - 1>>,
             <<ContactNameMin, SomeEmail, ContactMessageMax + 1>>,
             <<ContactNameMin, <<"a","b",".","s","k">>, ContactMessageMin>>,
             <<ContactNameMin, <<"a","@","b">>, ContactMessageMin>>}}
    \cup {[name |-> Str(Chars(ContactNameMin)), email |-> Str(SomeEmail)]}

ChatInputs ==
    {[name |-> Str(Chars(n)), content |-> Str(Chars(c))] :
        <<n, c>> \in
            {<<ChatNameMin, ChatContentMin>>,
             <<ChatNameMax, ChatContentMax>>,
             <<ChatNameMin - 1, ChatContentMin>>,
             <<ChatNameMax + 1, ChatContentMin>>,
             <<ChatNameMin, ChatContentMin - 1>>,
             <<ChatNameMin, ChatContentMax + 1>>}}
    \cup {[name |-> Str(Chars(ChatNameMin))], [content |-> Str(Chars(ChatContentMin))]}

ExternalUrl == Str(<<"https://video.example/1">>)

VideoInputs ==
    {[title |-> Str(Chars(TitleMin)), url |-> ExternalUrl],
     [title |-> Str(Chars(TitleMax)), url |-> ExternalUrl,
      description |-> Str(Chars(DescriptionMax)),
      thumbnail |-> Str(<<"https://video.example/1.png">>),
      created_at |-> Str(<<"2024-05-01", "T", "10:00:00">>)],
     [title |-> Str(Chars(TitleMin - 1)), url |-> ExternalUrl],
     [title |-> Str(Chars(TitleMax + 1)), url |-> ExternalUrl],
     [title |-> Str(Chars(TitleMin)), url |-> ExternalUrl,
      description |-> Str(Chars(DescriptionMax + 1))],
     [title |-> Str(Chars(TitleMin))],
     [url |-> ExternalUrl]}

\* the metadata posts sent while uploads are in flight
GalleryPosts ==
    {[title |-> Str(Chars(TitleMin)), url |-> ExternalUrl],
     [title |-> Str(Chars(TitleMin - 1)), url |-> ExternalUrl]}

\* file names of the multipart uploads: one per allowed format, in mixed
\* letter case and with directory parts, and names the handler must refuse
GoodFilenames ==
    {<<"a",".","M","P","4">>,
     <<"a",".","M","o","v">>,
     <<".",".","/","b",".","w","e","b","m">>,
     <<"c",".","t","a","r",".","m","k","v">>,
     <<"d",".","a","v","i","/">>}

BadFilenames ==
    {<<"a",".","e","x","e">>,
     <<"a",".","m","p","4",".">>,
     <<"m","p","4">>,
     <<".","m","p","4">>,
     <<"a",".","m","p","4","/","e">>,
     <<>>}

\* title and description sent with a file name
FormFields(f) ==
    IF f = <<"a",".","M","o","v">>
    THEN [title |-> Str(Chars(TitleMin - 1)), description |-> Str(<<>>)]
    ELSE IF f = <<"c",".","t","a","r",".","m","k","v">>
    THEN [title |-> Str(Chars(TitleMin)), description |-> Str(Chars(3))]
    ELSE [title |-> Str(Chars(TitleMin)), description |-> None]

UploadInputs ==
    {[title |-> FormFields(f).title, description |-> FormFields(f).description,
      filename |-> f] : f \in GoodFilenames \cup BadFilenames}

\* the uploads sent while others are in flight: three file names that are
\* accepted, one that is refused
GalleryUploads ==
    {u \in UploadInputs :
        u.filename \in {<<"a",".","M","P","4">>, <<"a",".","M","o","v">>,
                        <<"c",".","t","a","r",".","m","k","v">>,
                        <<"a",".","e","x","e">>}}

Limits == (-1)..MaxLimit

\* the limits of the listings made while uploads are in flight
GalleryLimits == {-1, 1, MaxLimit}

\* documents other writers left in the store before the process started
LegacyVideos ==
    {[url |-> ExternalUrl, created_at |-> Str(<<"2024-05-01">>)],
     [title |-> Str(Chars(TitleMin)),
      created_at |-> Dt(<<"2024-05-01", " ", "10:00:00">>)],
     [title |-> Str(Chars(TitleMin)), url |-> ExternalUrl,
      created_at |-> Str(<<>>)]}

LegacyChats ==
    {[content |-> Str(Chars(ChatContentMin))],
     [name |-> Str(Chars(ChatNameMin))],
     [name |-> Str(Chars(ChatNameMin)), content |-> Str(Chars(ChatContentMin))]}

----------------------------------------------------------------------------
(* state *)

\* the locals of an upload_video call; pc is the blocking call it is about
\* to make
IdleWorker ==
    [pc |-> "idle", n |-> 0, title |-> None, description |-> None,
     filename |-> <<>>, ext |-> <<>>, safe_name |-> <<>>]

\* a response: status, detail and body (list handlers) or id and item
\* (create handlers) are what the client receives; the other fields record
\* the call: its handler and inputs, the documents the store returned, the
\* number of store calls made, whether the store or the disk was made to
\* fail, and for an upload its locals and the step that ended it
NoResp ==
    [op |-> "none", doc |-> EmptyDoc, limit |-> 0, fault |-> FALSE,
     calls |-> 0, docs |-> <<>>, status |-> 0, detail |-> <<>>,
     body |-> <<>>, id |-> 0, item |-> EmptyDoc, w |-> IdleWorker,
     step |-> "none"]

EmptyStore == [c \in Collections |-> <<>>]

InitWith(stores) ==
    /\ db \in stores
    /\ origin = [c \in Collections |-> [i \in 1..Len(db[c]) |-> "legacy"]]
    /\ disk = [x \in {} |-> [by |-> 0, complete |-> TRUE]]
    /\ issued = 0
    /\ up = [p \in Workers |-> IdleWorker]
    /\ uploaded = {}
    /\ resp = NoResp

\* a fresh deployment: nothing stored, nothing uploaded
Init == InitWith({EmptyStore})

\* a store other writers have used: it is empty or holds one of their
\* documents, a video item or a chat message
InitHandlers ==
    InitWith({EmptyStore}
             \cup {[EmptyStore EXCEPT !["videoitem"] = <<d>>] : d \in LegacyVideos}
             \cup {[EmptyStore EXCEPT !["chatmessage"] = <<d>>] : d \in LegacyChats})

----------------------------------------------------------------------------
(* single-step handlers *)

Respond(op, doc, limit) == [NoResp EXCEPT !.op = op, !.doc = doc, !.limit = limit]

UploadVars == <<disk, issued, up, uploaded>>

\* a create handler: the body is validated against its schema before the
\* handler runs (422 otherwise); the handler calls create_document once
CreateHandler(op, coll, doc, valid, stored) ==
    LET r == Respond(op, doc, 0)
    IN  IF ~valid
        THEN /\ resp' = [r EXCEPT !.status = 422]
             /\ UNCHANGED <<db, origin>>
        ELSE \/ /\ Room(coll)
                /\ CreateDocument(coll, stored, op)
                /\ resp' = [r EXCEPT !.status = 200, !.calls = 1,
                                     !.id = Len(db[coll]) + 1]
             \/ /\ UNCHANGED <<db, origin>>
                /\ resp' = [r EXCEPT !.status = HandlerExcept(StoreError).status,
                                     !.detail = HandlerExcept(StoreError).detail,
                                     !.calls = 1, !.fault = TRUE]

post_contact ==
    /\ \E msg \in ContactInputs :
           CreateHandler("post_contact", "contactmessage", msg,
                         ValidContactMessage(msg), msg)
    /\ UNCHANGED UploadVars

post_chat_message ==
    /\ \E msg \in ChatInputs :
           CreateHandler("post_chat_message", "chatmessage", msg,
                         ValidChatMessage(msg), msg)
    /\ UNCHANGED UploadVars

create_video(inputs) ==
    /\ \E item \in inputs :
           CreateHandler("create_video", "videoitem", item,
                         ValidVideoItem(item),
                         IF ValidVideoItem(item) THEN VideoItemModel(item) ELSE item)
    /\ UNCHANGED UploadVars

\* a list handler: one get_documents call with the limit qlimit, the
\* documents normalised, each entry validated against the schema (a failure
\* is a 500)
ListHandler(op, coll, limit, qlimit) ==
    LET r == Respond(op, EmptyDoc, limit)
    IN  \/ \E docs \in GetDocuments(coll, qlimit) :
              LET cleaned == [i \in 1..Len(docs) |-> Cleaned(op, docs[i])]
                  e == HandlerExcept(Error("ValidationError", <<"validation error">>))
              IN  IF \A i \in 1..Len(cleaned) : ValidEntry(op, cleaned[i])
                  THEN resp' = [r EXCEPT !.status = 200, !.calls = 1, !.docs = docs,
                                         !.body = [i \in 1..Len(cleaned) |->
                                                      EntryOut(op, cleaned[i])]]
                  ELSE resp' = [r EXCEPT !.status = e.status, !.detail = e.detail,
                                         !.calls = 1, !.docs = docs]
        \/ resp' = [r EXCEPT !.status = HandlerExcept(StoreError).status,
                             !.detail = HandlerExcept(StoreError).detail,
                             !.calls = 1, !.fault = TRUE]

\* limit: int = 30
DefaultChatLimit == 30

\* the limit get_chat_messages hands to get_documents: the caller's
ChatQueryLimitDefault(limit) == DefaultChatLimit
ChatQueryLimit(limit) == limit

get_chat_messages(limits) ==
    /\ \E limit \in limits :
           ListHandler("get_chat_messages", "chatmessage", limit,
                       ChatQueryLimit(limit))
    /\ UNCHANGED <<db, origin>>
    /\ UNCHANGED UploadVars

list_videos(limits) ==
    /\ \E limit \in limits :
           ListHandler("list_videos", "videoitem", limit, limit)
    /\ UNCHANGED <<db, origin>>
    /\ UNCHANGED UploadVars

----------------------------------------------------------------------------
(* upload_video, one step per blocking call *)

\* the response of an upload that ends with exception e at the given step
Failed(w, step, e) ==
    [NoResp EXCEPT !.op = "upload_video", !.w = w, !.step = step,
                   !.status = e.status, !.detail = e.detail,
                   !.fault = (step # "format"),
                   !.calls = IF step = "persist" THEN 1 ELSE 0]

\* the request arrives: extension check, then the generated name
upload_begin(p, inputs) ==
    /\ up[p].pc = "idle"
    /\ \E req \in inputs :
           LET ext == Ext(req.filename)
               w == [IdleWorker EXCEPT !.title = req.title,
                                       !.description = req.description,
                                       !.filename = req.filename,
                                       !.ext = ext]
           IN  IF FormatRejected(ext)
               THEN /\ resp' = Failed(w, "format",
                                      UploadExcept(HTTPException(400, FormatsDetail)))
                    /\ UNCHANGED <<up, issued>>
               ELSE /\ issued < MaxUploads
                    /\ issued' = issued + 1
                    /\ up' = [up EXCEPT ![p] =
                                 [w EXCEPT !.pc = "write", !.n = issued + 1,
                                           !.safe_name =
                                               SafeName(Uuid4Hex(issued + 1), ext)]]
                    /\ resp' = NoResp
    /\ UNCHANGED <<db, origin, disk, uploaded>>

\* the file write: it completes, or fails before or after the file exists
upload_write(p) ==
    LET w == up[p]
    IN  /\ w.pc = "write"
        /\ \/ /\ disk' = WriteFile(disk, w.safe_name, w.n)
              /\ up' = [up EXCEPT ![p].pc = "persist"]
              /\ resp' = NoResp
           \/ /\ disk' = DiskAfterExcept(disk, w.safe_name)
              /\ up' = [up EXCEPT ![p] = IdleWorker]
              /\ resp' = Failed(w, "write", UploadExcept(DiskError))
           \/ /\ disk' = DiskAfterExcept(WriteFilePartial(disk, w.safe_name, w.n),
                                         w.safe_name)
              /\ up' = [up EXCEPT ![p] = IdleWorker]
              /\ resp' = Failed(w, "write", UploadExcept(DiskError))
        /\ UNCHANGED <<db, origin, issued, uploaded>>

\* the metadata write and the return
upload_persist(p) ==
    LET w == up[p]
        url_path == UrlPath(w.safe_name)
        payload == Payload(w.title, Str(url_path), w.description)
    IN  /\ w.pc = "persist"
        /\ up' = [up EXCEPT ![p] = IdleWorker]
        /\ \/ /\ Room("videoitem")
              /\ CreateDocument("videoitem", payload, "upload_video")
              /\ resp' = [NoResp EXCEPT !.op = "upload_video", !.w = w,
                                        !.step = "return", !.status = 200,
                                        !.calls = 1, !.item = payload,
                                        !.id = Len(db["videoitem"]) + 1]
              /\ uploaded' = uploaded \cup
                     {[n |-> w.n, filename |-> w.filename, ext |-> w.ext,
                       safe_name |-> w.safe_name, item |-> payload]}
              /\ UNCHANGED disk
           \/ /\ disk' = DiskAfterExcept(disk, w.safe_name)
              /\ resp' = Failed(w, "persist", UploadExcept(StoreError))
              /\ UNCHANGED <<db, origin, uploaded>>
        /\ UNCHANGED issued

----------------------------------------------------------------------------
(* specifications *)

\* the video gallery: metadata posts, listings and concurrent uploads
Next ==
    \/ create_video(GalleryPosts)
    \/ list_videos(GalleryLimits)
    \/ \E p \in Workers : upload_begin(p, GalleryUploads)
    \/ \E p \in Workers : upload_write(p)
    \/ \E p \in Workers : upload_persist(p)

Spec == Init /\ [][Next]_vars

\* uploads of every file name, served one after the other
NextUploads ==
    \/ upload_begin("w1", UploadInputs)
    \/ upload_write("w1")
    \/ upload_persist("w1")

SpecUploads == Init /\ [][NextUploads]_vars

\* the single-step handlers over a store that other writers have used
NextHandlers ==
    \/ post_contact
    \/ post_chat_message
    \/ get_chat_messages(Limits)
    \/ create_video(VideoInputs)
    \/ list_videos(Limits)

SpecHandlers == InitHandlers /\ [][NextHandlers]_vars

----------------------------------------------------------------------------
(* properties of upload_video *)

\* the formats the specification allows, each with its extension
Formats ==
    {[name |-> "mp4", ext |-> <<".","m","p","4">>],
     [name |-> "mov", ext |-> <<".","m","o","v">>],
     [name |-> "webm", ext |-> <<".","w","e","b","m">>],
     [name |-> "mkv", ext |-> <<".","m","k","v">>],
     [name |-> "avi", ext |-> <<".","a","v","i">>]}

\* the file name's extension, letter case ignored, is an allowed format
HasAllowedFormat(filename) ==
    \E f \in Formats : Lower(Suffix(filename)) = f.ext

IsUploadResp == resp.op = "upload_video"

VideoUrls == {db["videoitem"][i]["url"] : i \in
                 {j \in 1..Len(db["videoitem"]) : "url" \in DOMAIN db["videoitem"][j]}}

\* the response to a file name of no allowed format is the 400 naming the
\* formats, and no such request is ever in flight
C1_Rejected ==
    /\ IsUploadResp /\ ~HasAllowedFormat(resp.w.filename) =>
          /\ resp.status = 400
          /\ resp.step = "format"
          /\ \A f \in Formats : \E i \in 1..Len(resp.detail) : resp.detail[i] = f.name
    /\ \A p \in Workers : up[p].pc # "idle" => HasAllowedFormat(up[p].filename)

\* the step that answers with the format rejection changes nothing else
C1_NothingWritten ==
    (IsUploadResp /\ resp.step = "format")'
        => (disk' = disk /\ db' = db /\ origin' = origin /\ up' = up)

\* C1: an upload whose extension (case-insensitive) is none of mp4, mov,
\* webm, mkv, avi, a name without extension included, ends with status 400
\* and a detail naming every allowed format, never reaches the file write,
\* and leaves the files of the upload directory and the records of the
\* store as they were.
C1_FormatRejection == [](C1_Rejected) /\ [][C1_NothingWritten]_vars

\* a name without extension is refused while a file and a record exist
C1_Witness ==
    /\ IsUploadResp /\ resp.status = 400
    /\ resp.w.filename = <<"m","p","4">>
    /\ DOMAIN disk # {}
    /\ Len(db["videoitem"]) > 0

\* the extension each accepted file name is stored with
StoredExt(f) ==
    CASE f = <<"a",".","M","P","4">> -> <<".","m","p","4">>
      [] f = <<"a",".","M","o","v">> -> <<".","m","o","v">>
      [] f = <<".",".","/","b",".","w","e","b","m">> -> <<".","w","e","b","m">>
      [] f = <<"c",".","t","a","r",".","m","k","v">> -> <<".","m","k","v">>
      [] f = <<"d",".","a","v","i","/">> -> <<".","a","v","i">>

\* C4: an upload whose extension is an allowed format in any letter case
\* succeeds unless the disk or the store fails, and the item returned and
\* persisted has the url "/uploads/videos/" + generated hex + the extension
\* in lower case, thumbnail null, and the supplied description, or "" when
\* none was supplied.
C4_UploadAccepted ==
    IsUploadResp /\ ~resp.fault
        /\ (HasAllowedFormat(resp.w.filename) \/ resp.w.filename \in GoodFilenames)
    => /\ resp.status = 200
       /\ resp.w.filename \in GoodFilenames
       /\ resp.item["url"] =
             Str(<<"/uploads/videos/">> \o Uuid4Hex(resp.w.n)
                    \o StoredExt(resp.w.filename))
       /\ resp.item["url"].v # <<>>
       /\ resp.item["thumbnail"] = None
       /\ resp.item["description"] =
             (IF IsStr(resp.w.description) THEN resp.w.description ELSE Str(<<>>))
       /\ resp.item["title"] = resp.w.title
       /\ Len(db["videoitem"]) = resp.id
       /\ db["videoitem"][resp.id] = resp.item

\* "a.MP4" was uploaded with no description and is stored as ....mp4
C4_Witness ==
    /\ IsUploadResp /\ resp.status = 200
    /\ resp.w.filename = <<"a",".","M","P","4">>
    /\ resp.w.description = None
    /\ resp.item["description"] = Str(<<>>)
    /\ resp.item["url"].v[3] = "."
    /\ resp.item["url"].v[6] = "4"

\* C5: two successful uploads, sequential or interleaved, with the same
\* original file name write two distinct files, each still holding what its
\* own request wrote, and a stored name is a generated hex identifier plus
\* the extension, never the caller's name.
C5_DistinctFiles ==
    /\ \A u \in uploaded :
          /\ u.safe_name \in DOMAIN disk
          /\ disk[u.safe_name] = [by |-> u.n, complete |-> TRUE]
          /\ \E k \in 1..issued : u.safe_name = Uuid4Hex(k) \o Lower(Suffix(u.filename))
          /\ \A i \in 1..Len(u.safe_name) : u.safe_name[i] # "/"
          /\ u.safe_name # PathName(u.filename)
    /\ \A u1, u2 \in uploaded :
          u1.n # u2.n => u1.safe_name # u2.safe_name
    /\ \A p \in Workers :
          up[p].pc = "persist" =>
              /\ up[p].safe_name \in DOMAIN disk
              /\ disk[up[p].safe_name] = [by |-> up[p].n, complete |-> TRUE]

\* an upload that began later has returned while an earlier one of the same
\* file name has written its file and not yet its record
C5_Witness ==
    \E u \in uploaded : \E p \in Workers :
        /\ up[p].pc = "persist"
        /\ up[p].filename = u.filename
        /\ up[p].n < u.n

\* C7: a failed upload's outcome follows the failing step: the format
\* rejection is the 400 it raised, a failed file write or metadata write is
\* a 500 carrying the underlying message; the failed request is over (no
\* step is run again) and every upload ends with a response.
C7_FailureOutcome ==
    IsUploadResp =>
        /\ resp.step = "format" =>
              resp.status = 400 /\ resp.detail = FormatsDetail /\ resp.calls = 0
        /\ resp.step = "write" =>
              resp.status = 500 /\ resp.detail = DiskError.detail /\ resp.calls = 0
        /\ resp.step = "persist" =>
              resp.status = 500 /\ resp.detail = StoreError.detail /\ resp.calls = 1
        /\ resp.step = "return" => resp.status = 200
        /\ resp.step \in {"format", "write", "persist", "return"}
        /\ resp.step # "format" => \A p \in Workers : up[p].n # resp.w.n

C7_Witness ==
    IsUploadResp /\ resp.step = "write" /\ resp.status = 500
        /\ resp.w.safe_name \in DOMAIN disk

\* a complete file that no request in flight and no record refers to
Orphans ==
    {name \in DOMAIN disk :
        /\ disk[name].complete
        /\ \A p \in Workers : up[p].n # disk[name].by
        /\ Str(UrlPrefix \o name) \notin VideoUrls}

\* the response to a failed metadata write: a 500, the file left orphaned
C8_AtFailure ==
    IsUploadResp /\ resp.step = "persist" =>
        /\ resp.status = 500
        /\ resp.w.safe_name \in Orphans
        /\ disk[resp.w.safe_name].by = resp.w.n

\* no step removes a file or changes an orphan, and the failing step
\* creates no record
C8_FilesKept ==
    /\ \A name \in DOMAIN disk : name \in DOMAIN disk'
    /\ (IsUploadResp /\ resp.step = "persist")' => db' = db
    /\ \A name \in Orphans : name \in DOMAIN disk' /\ disk'[name] = disk[name]

\* C8: when the file write succeeded and the metadata write fails, the
\* request ends with a server error, no record is created, and its file
\* stays in the upload directory; no later step removes a file.
C8_OrphanedFile == [](C8_AtFailure) /\ [][C8_FilesKept]_vars

\* an orphan is still there after a later request was served
C8_Witness ==
    /\ Orphans # {}
    /\ resp.op = "create_video" /\ resp.status = 200
    /\ \E p \in Workers : up[p].pc = "persist"

\* C10: every record written by upload_video has a url that names a
\* complete file of the upload directory, whatever the interleaving of
\* uploads, metadata posts and listings.
C10_UrlNamesFile ==
    \A i \in 1..Len(db["videoitem"]) :
        origin["videoitem"][i] = "upload_video" =>
            /\ FileOfUrl(db["videoitem"][i]["url"].v) \in DOMAIN disk
            /\ disk[FileOfUrl(db["videoitem"][i]["url"].v)].complete

\* an upload's record beside a posted one, with more files than records
C10_Witness ==
    /\ \E i \in 1..Len(db["videoitem"]) : origin["videoitem"][i] = "upload_video"
    /\ \E i \in 1..Len(db["videoitem"]) : origin["videoitem"][i] = "create_video"
    /\ Orphans # {}

----------------------------------------------------------------------------
(* properties of the records and of the list handlers *)

\* the documents of a collection that a handler of this program wrote
Written(coll) ==
    {db[coll][i] : i \in {j \in 1..Len(db[coll]) : origin[coll][j] # "legacy"}}

\* C2: every record a create operation persisted (post_contact,
\* post_chat_message, create_video, upload_video) meets the length and
\* format constraints of its type, and an input violating one is rejected
\* before any persistence call.
C2_PersistedValid ==
    /\ \A d \in Written("contactmessage") : ValidContactMessage(d)
    /\ \A d \in Written("chatmessage") : ValidChatMessage(d)
    /\ \A d \in Written("videoitem") :
          /\ StrField(d, "title", TitleMin, TitleMax)
          /\ OptStrField(d, "description", DescriptionMax)
    /\ resp.op = "post_contact" /\ ~ValidContactMessage(resp.doc) => resp.calls = 0
    /\ resp.op = "post_chat_message" /\ ~ValidChatMessage(resp.doc) => resp.calls = 0
    /\ resp.op = "create_video" /\ ~ValidVideoItem(resp.doc) => resp.calls = 0

\* C3: once an upload has returned success, a list_videos call whose limit
\* covers the collection and whose store call works succeeds and lists an
\* item with the url "/uploads/videos/" + generated name + extension and a
\* null thumbnail, for every title and description the upload accepted.
C3_ListedAfterUpload ==
    resp.op = "list_videos" /\ ~resp.fault /\ uploaded # {}
        /\ resp.limit >= Len(db["videoitem"])
    => /\ resp.status = 200
       /\ \A u \in uploaded :
             \E i \in 1..Len(resp.body) :
                 /\ resp.body[i]["url"] =
                       Str(UrlPrefix \o Uuid4Hex(u.n) \o Lower(Suffix(u.filename)))
                 /\ resp.body[i]["thumbnail"] = None

\* C6 as stated: for every integer limit, get_chat_messages returns at most
\* limit records.
C6_AnyLimit ==
    resp.op = "get_chat_messages" => Len(resp.body) <= resp.limit

\* C6 as amended: for every limit of at least 1 and every content of the
\* collection, get_chat_messages returns at most limit records.
C6_PositiveLimit ==
    resp.op = "get_chat_messages" /\ resp.limit >= 1
    => /\ Len(resp.body) <= resp.limit
       /\ Len(resp.docs) <= resp.limit

\* three messages were posted and a call with limit 2 returned two records
C6_Witness ==
    /\ Len(db["chatmessage"]) = 3
    /\ \A i \in 1..3 : origin["chatmessage"][i] = "post_chat_message"
    /\ resp.op = "get_chat_messages" /\ resp.limit = 2
    /\ resp.status = 200 /\ Len(resp.body) = 2

\* C9: a list call whose store call works succeeds with one entry per
\* record the store returned, in which a missing name is "Anonym", a
\* missing content, title or url is "", and created_at is the ISO string of
\* a datetime, the string itself, or null when absent.
C9_Normalized ==
    /\ resp.op = "get_chat_messages" /\ ~resp.fault =>
          /\ resp.status = 200
          /\ Len(resp.body) = Len(resp.docs)
          /\ \A i \in 1..Len(resp.docs) :
                LET d == resp.docs[i]
                    b == resp.body[i]
                IN  /\ b["name"] = (IF "name" \in DOMAIN d THEN d["name"]
                                    ELSE Str(<<"A","n","o","n","y","m">>))
                    /\ b["content"] = (IF "content" \in DOMAIN d THEN d["content"]
                                       ELSE Str(<<>>))
    /\ resp.op = "list_videos" /\ ~resp.fault =>
          /\ resp.status = 200
          /\ Len(resp.body) = Len(resp.docs)
          /\ \A i \in 1..Len(resp.docs) :
                LET d == resp.docs[i]
                    b == resp.body[i]
                IN  /\ b["title"] = (IF "title" \in DOMAIN d THEN d["title"]
                                     ELSE Str(<<>>))
                    /\ b["url"] = (IF "url" \in DOMAIN d THEN d["url"] ELSE Str(<<>>))
                    /\ "created_at" \notin DOMAIN d => b["created_at"] = None
                    /\ "created_at" \in DOMAIN d /\ d["created_at"].t = "dt" =>
                          b["created_at"] = Str(<<"2024-05-01", "T", "10:00:00">>)
                    /\ "created_at" \in DOMAIN d /\ d["created_at"].t = "str"
                          /\ d["created_at"].v # <<>> =>
                          b["created_at"] = d["created_at"]

====
